---- MODULE Spec2Model ----
(***************************************************************************)
(* A model of the operator scripts of schoolERP_js/python_scripts:         *)
(*   seed_admin_users.py   delete-then-insert seeding of three databases   *)
(*   check_users.py, show_users.py, explore_db.py   database read helpers   *)
(*   check_users.py   its main: the users report and its summary           *)
(*   test_auth.py, test_simple_auth.py   HTTP login probes                  *)
(*   test_security.py   the security suite (test_request, main)             *)
(* The database server and the login service are the environment: every    *)
(* connection, statement and request draws its outcome nondeterministically.*)
(***************************************************************************)
EXTENDS Integers, Sequences, FiniteSets, TLC

VARIABLES
    script,     \* the script the operator runs
    \* ---- seed_admin_users.py ----
    tables,     \* database name -> rows of its user table, in insertion order
    columns,    \* tenant database name -> column names of its users table
    pc,         \* run -> position in main
    idx,        \* run -> index (1..3) of the database being processed
    conn,       \* run -> set of databases this run holds an open connection to
    st,         \* run -> outcome of DELETE / INSERT on the database being seeded
    clean,      \* run -> so far every connect, DELETE and INSERT of main succeeded
    exc,        \* run -> the exception that escaped main ("none" when none did)
    exitcode,   \* run -> process exit status, -1 while the process is running
    banner,     \* run -> the completion banner and credentials were printed
    active      \* the runs an operator launches (constant through a behaviour)

VARIABLES
    \* ---- check_users.py, show_users.py, explore_db.py: one helper call ----
    r_fn,       \* the read helper being called ("none" before the first call)
    r_db,       \* its database_name argument
    r_pc,       \* position in the helper
    r_conn,     \* connections the helper opened and has not closed
    r_fail,     \* the failure the call met: "none", "connect" or "statement"
    r_missing,  \* SHOW TABLES LIKE found no table in this call
    r_result    \* the value the helper returns

VARIABLES
    \* ---- check_users.py: main ----
    c_pc,       \* position in main ("idle" when main is not run)
    c_system,   \* system_users
    c_dbs,      \* trust_databases
    c_counts,   \* len(trust_users) of each get_trust_users call so far
    c_all,      \* all_trust_users: whether the name is bound, and the list
    c_summary   \* the numbers printed under SUMMARY

VARIABLES
    \* ---- test_auth.py, test_simple_auth.py ----
    t_pc,       \* number of the probe to attempt next
    t_out,      \* what was printed: per attempted probe, its target and outcome
    t_complete  \* the 'Test Complete' line was printed

VARIABLES
    \* ---- test_security.py ----
    s_pc,       \* position in main
    s_last,     \* the last test_request call: expected result, response, verdict
    s_results,  \* main's results list: <<test name, success>>
    s_status    \* the SECURITY STATUS line printed ("none" before the summary)

seedVars == <<tables, columns, pc, idx, conn, st, clean, exc, exitcode, banner,
              active>>
readVars == <<r_fn, r_db, r_pc, r_conn, r_fail, r_missing, r_result>>
probeVars == <<t_pc, t_out, t_complete>>
suiteVars == <<s_pc, s_last, s_results, s_status>>
reportVars == <<c_pc, c_system, c_dbs, c_counts, c_all, c_summary>>

vars == <<script, seedVars, readVars, reportVars, probeVars, suiteVars>>

\* What a step of one script leaves alone.
notSeed == <<script, readVars, reportVars, probeVars, suiteVars>>
notRead == <<script, seedVars, reportVars, probeVars, suiteVars>>
notProbe == <<script, seedVars, readVars, reportVars, suiteVars>>
notSuite == <<script, seedVars, readVars, reportVars, probeVars>>
notReport == <<script, seedVars, probeVars, suiteVars>>

----------------------------------------------------------------------------
(* seed_admin_users.py                                                      *)

\* Database names, as their underscore-separated segments.
SystemDb == <<"school", "erp", "system">>
DemoDb   == <<"school", "erp", "trust", "demo">>
MaroonDb == <<"school", "erp", "trust", "maroon">>

\* The order in which main and verify_users go through the databases.
Databases == <<SystemDb, DemoDb, MaroonDb>>

DBs == {Databases[i] : i \in 1..Len(Databases)}
TenantDBs == {DemoDb, MaroonDb}

TrustName(db) == IF db = DemoDb THEN "Demo Trust" ELSE "Maroon Trust"

\* The two concurrent invocations of the script that are considered.
Runs == {1, 2}

\* The two shapes of a tenant users table.
MaroonCols == {"id", "username", "email", "password_hash", "first_name",
               "last_name", "user_type", "is_active", "created_at", "updated_at"}
DemoCols == {"id", "email", "password_hash", "role", "status", "full_name",
             "created_at", "updated_at"}

BcryptRounds == 12

\* bcrypt.gensalt(rounds=12): a fresh random salt.  Every call of a run gets
\* the salt of that run: two runs never draw the same salt, and the rows one
\* run inserts go to different tables.
Salt(p) == <<"salt", p>>

\* The salt of a hash that was stored before the first run.
OldSalt == <<"salt", 0>>

\* hash_password: bcrypt.hashpw(password, salt) of the password.
hash_password(password, salt) ==
    [algo |-> "bcrypt", rounds |-> BcryptRounds, salt |-> salt, of |-> password]

(* database_name.split('_')[0] *)
FirstSegment(db) == db[1]

\* database_name.split('_')[-1]
LastSegment(db) == db[Len(db)]

\* 'admin@' + database_name.split('_')[-1] + '.school'
AdminEmail(db) == <<"admin@", LastSegment(db), ".school">>

\* The row seed_system_admin inserts.
SystemAdminRow(salt) ==
    [username |-> "admin", password_hash |-> hash_password("admin123", salt),
     full_name |-> "System Administrator", role |-> "SYSTEM_ADMIN",
     status |-> "ACTIVE"]

\* The row seed_tenant_admin inserts, chosen by the table's columns.
TenantAdminRow(db, cols, salt) ==
    IF "username" \in cols
    THEN [username |-> "admin", email |-> AdminEmail(db),
          password_hash |-> hash_password("admin123", salt),
          first_name |-> "Trust", last_name |-> "Administrator",
          user_type |-> "ADMIN", is_active |-> 1]
    ELSE [email |-> AdminEmail(db), password_hash |-> hash_password("admin123", salt),
          role |-> "TRUST_ADMIN", status |-> "ACTIVE",
          full_name |-> <<TrustName(db), " Administrator">>]

AdminRow(db, cols, salt) ==
    IF db = SystemDb THEN SystemAdminRow(salt) ELSE TenantAdminRow(db, cols[db], salt)

\* A user that is in a table before the script runs.
OldUser(db, cols) ==
    IF db = SystemDb
    THEN [username |-> "sysadmin", password_hash |-> hash_password("old", OldSalt),
          full_name |-> "Old", role |-> "SYSTEM_ADMIN", status |-> "ACTIVE"]
    ELSE IF "username" \in cols[db]
    THEN [username |-> "teacher", email |-> <<"teacher@", LastSegment(db), ".school">>,
          password_hash |-> hash_password("old", OldSalt),
          first_name |-> "Old", last_name |-> "Teacher",
          user_type |-> "TEACHER", is_active |-> 1]
    ELSE [email |-> <<"teacher@", LastSegment(db), ".school">>,
          password_hash |-> hash_password("old", OldSalt),
          role |-> "TEACHER", status |-> "ACTIVE", full_name |-> <<"Old", " Teacher">>]

\* Largest number of rows a table holds before the first run.
MaxOldRows == 2

\* The contents a user table may have before the first run: old users and/or
\* an admin left by an earlier run.
InitialRows(db, cols) ==
    {s \in {<<>>, <<OldUser(db, cols)>>, <<AdminRow(db, cols, OldSalt)>>,
            <<OldUser(db, cols), AdminRow(db, cols, OldSalt)>>,
            <<OldUser(db, cols), OldUser(db, cols), AdminRow(db, cols, OldSalt)>>} :
        Len(s) <= MaxOldRows}

NoStatus == [del |-> "none", ins |-> "none"]

\* The `if conn:` block of a database was not entered.
Skipped == [del |-> "skipped", ins |-> "skipped"]

\* The state of every run before it is launched.
InitRuns ==
    /\ pc = [p \in Runs |-> "idle"]
    /\ idx = [p \in Runs |-> 1]
    /\ conn = [p \in Runs |-> {}]
    /\ st = [p \in Runs |-> NoStatus]
    /\ clean = [p \in Runs |-> TRUE]
    /\ exc = [p \in Runs |-> "none"]
    /\ exitcode = [p \in Runs |-> -1]
    /\ banner = [p \in Runs |-> FALSE]

\* No run of the seed script: the tables are not touched.
SeedIdle ==
    /\ columns = [d \in TenantDBs |-> IF d = DemoDb THEN DemoCols ELSE MaroonCols]
    /\ tables = [d \in DBs |-> <<>>]
    /\ active = {}
    /\ InitRuns

\* One run of the script, against any schema and any initial table contents.
InitSeed ==
    /\ columns \in [TenantDBs -> {MaroonCols, DemoCols}]
    /\ tables \in [DBs -> UNION {InitialRows(d, columns) : d \in DBs}]
    /\ \A d \in DBs : tables[d] \in InitialRows(d, columns)
    /\ script = "seed_admin_users"
    /\ active = {1}
    /\ InitRuns

\* Two runs of the script launched against the same server, whose tables are
\* either all empty or all as an earlier run left them.
InitRace ==
    /\ columns = [d \in TenantDBs |-> IF d = DemoDb THEN DemoCols ELSE MaroonCols]
    /\ \E fresh \in BOOLEAN :
          tables = [d \in DBs |-> IF fresh THEN <<>> ELSE <<AdminRow(d, columns, OldSalt)>>]
    /\ script = "seed_admin_users"
    /\ active = Runs
    /\ InitRuns

\* Runs of the script launched one after the other, against any schema and
\* tables that all hold the same kind of rows: old users and/or the admin of
\* an earlier run.
InitRerun ==
    /\ columns \in [TenantDBs -> {MaroonCols, DemoCols}]
    /\ \E old, seeded \in BOOLEAN :
          tables = [d \in DBs |->
                      (IF old THEN <<OldUser(d, columns)>> ELSE <<>>) \o
                      (IF seeded THEN <<AdminRow(d, columns, OldSalt)>> ELSE <<>>)]
    /\ script = "seed_admin_users"
    /\ active = Runs
    /\ InitRuns

CurDb(p) == Databases[idx[p]]

Running(p) == pc[p] \notin {"idle", "done", "exit"}

\* __main__ guard: a KeyboardInterrupt or any other Exception that escapes
\* main is printed and the process exits with status 1.  Inside verify_users'
\* try the finally still closes the connection; main has no finally.
MainGuard(p, e) ==
    /\ Running(p)
    /\ exc' = [exc EXCEPT ![p] = e]
    /\ exitcode' = [exitcode EXCEPT ![p] = 1]
    /\ pc' = [pc EXCEPT ![p] = "exit"]
    /\ conn' = IF pc[p] = "v_query"
               THEN [conn EXCEPT ![p] = conn[p] \ {CurDb(p)}]
               ELSE conn
    /\ UNCHANGED <<tables, columns, idx, st, clean, banner, active, notSeed>>

\* main, lines 199-206: the script is started.
Start(p) ==
    /\ script = "seed_admin_users"
    /\ p \in active
    /\ pc[p] = "idle"
    /\ pc' = [pc EXCEPT ![p] = "connect"]
    /\ UNCHANGED <<tables, columns, idx, conn, st, clean, exc, exitcode, banner,
                   active, notSeed>>

\* Where main goes once it is through with database idx[p].
AfterDb(p) ==
    IF idx[p] < Len(Databases)
    THEN /\ pc' = [pc EXCEPT ![p] = "connect"]
         /\ idx' = [idx EXCEPT ![p] = idx[p] + 1]
    ELSE /\ pc' = [pc EXCEPT ![p] = "v_connect"]
         /\ idx' = [idx EXCEPT ![p] = 1]

\* connect_to_database returned a connection: main enters its `if conn:`.
Connected(p) ==
    /\ conn' = [conn EXCEPT ![p] = conn[p] \cup {CurDb(p)}]
    /\ pc' = [pc EXCEPT ![p] = "clear"]
    /\ st' = [st EXCEPT ![p] = NoStatus]
    /\ UNCHANGED <<tables, columns, idx, clean, exc, exitcode, banner, active, notSeed>>

(* A connect_to_database that lets the database error through. *)
ConnectFailedEscapes(p) ==
    /\ MainGuard(p, "DatabaseError")

\* connect_to_database caught mysql.connector.Error, printed it and returned
\* None: main skips the database.
ConnectFailed(p) ==
    /\ AfterDb(p)
    /\ st' = [st EXCEPT ![p] = Skipped]
    /\ clean' = [clean EXCEPT ![p] = FALSE]
    /\ UNCHANGED <<tables, columns, conn, exc, exitcode, banner, active, notSeed>>

(* A main without `if conn:`: the block is entered with no connection. *)
ConnectUnchecked(p) ==
    /\ pc[p] = "connect"
    /\ \E ok \in BOOLEAN :
        /\ conn' = IF ok THEN [conn EXCEPT ![p] = conn[p] \cup {CurDb(p)}] ELSE conn
        /\ clean' = [clean EXCEPT ![p] = @ /\ ok]
    /\ pc' = [pc EXCEPT ![p] = "clear"]
    /\ st' = [st EXCEPT ![p] = NoStatus]
    /\ UNCHANGED <<tables, columns, idx, exc, exitcode, banner, active, notSeed>>

\* connect_to_database and the `if conn:` of main.
Connect(p) ==
    /\ pc[p] = "connect"
    /\ \E ok \in BOOLEAN : IF ok THEN Connected(p) ELSE ConnectFailed(p)

(* A DELETE that is never committed (autocommit off, no commit before close). *)
ClearNotCommitted(p) ==
    /\ pc[p] = "clear"
    /\ \E ok \in BOOLEAN :
        IF ok
        THEN /\ st' = [st EXCEPT ![p].del = "ok"]
             /\ UNCHANGED clean
        ELSE /\ st' = [st EXCEPT ![p].del = "fail"]
             /\ clean' = [clean EXCEPT ![p] = FALSE]
    /\ pc' = [pc EXCEPT ![p] = "seed"]
    /\ UNCHANGED <<tables, columns, idx, conn, exc, exitcode, banner, active, notSeed>>

(* A DELETE restricted to the admin rows. *)
ClearOnlyAdmins(p) ==
    /\ pc[p] = "clear"
    /\ \E ok \in BOOLEAN :
        IF ok
        THEN /\ tables' = [tables EXCEPT ![CurDb(p)] =
                              SelectSeq(@, LAMBDA r : r.password_hash.of # "admin123")]
             /\ st' = [st EXCEPT ![p].del = "ok"]
             /\ UNCHANGED clean
        ELSE /\ UNCHANGED tables
             /\ st' = [st EXCEPT ![p].del = "fail"]
             /\ clean' = [clean EXCEPT ![p] = FALSE]
    /\ pc' = [pc EXCEPT ![p] = "seed"]
    /\ UNCHANGED <<columns, idx, conn, exc, exitcode, banner, active, notSeed>>

(* A main that skips the INSERT when the DELETE failed. *)
ClearFailureSkipsSeed(p) ==
    /\ pc[p] = "clear"
    /\ \E ok \in BOOLEAN :
        IF ok
        THEN /\ tables' = [tables EXCEPT ![CurDb(p)] = <<>>]
             /\ st' = [st EXCEPT ![p].del = "ok"]
             /\ pc' = [pc EXCEPT ![p] = "seed"]
             /\ UNCHANGED clean
        ELSE /\ UNCHANGED tables
             /\ st' = [st EXCEPT ![p].del = "fail"]
             /\ pc' = [pc EXCEPT ![p] = "close"]
             /\ clean' = [clean EXCEPT ![p] = FALSE]
    /\ UNCHANGED <<columns, idx, conn, exc, exitcode, banner, active, notSeed>>

\* clear_existing_users: DELETE FROM <table>; a database error is printed.
\* autocommit is on: a DELETE that succeeded is final.
ClearExistingUsers(p) ==
    /\ pc[p] = "clear"
    /\ \E ok \in BOOLEAN :
        IF ok
        THEN /\ tables' = [tables EXCEPT ![CurDb(p)] = <<>>]
             /\ st' = [st EXCEPT ![p].del = "ok"]
             /\ UNCHANGED clean
        ELSE /\ UNCHANGED tables
             /\ st' = [st EXCEPT ![p].del = "fail"]
             /\ clean' = [clean EXCEPT ![p] = FALSE]
    /\ pc' = [pc EXCEPT ![p] = "seed"]
    /\ UNCHANGED <<columns, idx, conn, exc, exitcode, banner, active, notSeed>>

\* The statements seed_system_admin / seed_tenant_admin may see fail.
SeedOutcomes(db) ==
    {"ok", "insert_error"} \cup (IF db \in TenantDBs THEN {"describe_error"} ELSE {})

(* An INSERT that is skipped when the table already holds the admin. *)
SeedAdminIfAbsent(p) ==
    /\ pc[p] = "seed"
    /\ \E outcome \in SeedOutcomes(CurDb(p)) :
        /\ tables' = IF /\ outcome = "ok"
                        /\ \A i \in 1..Len(tables[CurDb(p)]) :
                              tables[CurDb(p)][i].password_hash.of # "admin123"
                     THEN [tables EXCEPT ![CurDb(p)] =
                              Append(@, AdminRow(CurDb(p), columns, Salt(p)))]
                     ELSE tables
        /\ st' = [st EXCEPT ![p].ins = CASE outcome = "ok" -> "ok"
                                         [] outcome = "insert_error" -> "fail"
                                         [] OTHER -> "none"]
        /\ clean' = [clean EXCEPT ![p] = @ /\ outcome = "ok"]
    /\ pc' = [pc EXCEPT ![p] = "close"]
    /\ UNCHANGED <<columns, idx, conn, exc, exitcode, banner, active, notSeed>>

\* seed_system_admin / seed_tenant_admin: (DESCRIBE users, then) one INSERT;
\* a database error of either statement is printed.
SeedAdmin(p) ==
    /\ pc[p] = "seed"
    /\ \E outcome \in SeedOutcomes(CurDb(p)) :
        /\ tables' = IF outcome = "ok"
                     THEN [tables EXCEPT ![CurDb(p)] =
                              Append(@, AdminRow(CurDb(p), columns, Salt(p)))]
                     ELSE tables
        /\ st' = [st EXCEPT ![p].ins = CASE outcome = "ok" -> "ok"
                                         [] outcome = "insert_error" -> "fail"
                                         [] OTHER -> "none"]
        /\ clean' = [clean EXCEPT ![p] = @ /\ outcome = "ok"]
    /\ pc' = [pc EXCEPT ![p] = "close"]
    /\ UNCHANGED <<columns, idx, conn, exc, exitcode, banner, active, notSeed>>

(* A main that forgets <db>_conn.close(). *)
CloseConnLeaks(p) ==
    /\ pc[p] = "close"
    /\ st' = [st EXCEPT ![p] = NoStatus]
    /\ AfterDb(p)
    /\ UNCHANGED <<tables, columns, conn, clean, exc, exitcode, banner, active, notSeed>>

\* main: <db>_conn.close(), then on to the next database.
CloseConn(p) ==
    /\ pc[p] = "close"
    /\ conn' = [conn EXCEPT ![p] = conn[p] \ {CurDb(p)}]
    /\ st' = [st EXCEPT ![p] = NoStatus]
    /\ AfterDb(p)
    /\ UNCHANGED <<tables, columns, clean, exc, exitcode, banner, active, notSeed>>

\* Where verify_users goes once it is through with database idx[p].
AfterVerify(p) ==
    IF idx[p] < Len(Databases)
    THEN /\ pc' = [pc EXCEPT ![p] = "v_connect"]
         /\ idx' = [idx EXCEPT ![p] = idx[p] + 1]
    ELSE /\ pc' = [pc EXCEPT ![p] = "banner"]
         /\ UNCHANGED idx

\* verify_users, lines 161-164: connect, `continue` when it fails.
VerifyConnect(p) ==
    /\ pc[p] = "v_connect"
    /\ \E ok \in BOOLEAN :
        IF ok
        THEN /\ conn' = [conn EXCEPT ![p] = conn[p] \cup {CurDb(p)}]
             /\ pc' = [pc EXCEPT ![p] = "v_query"]
             /\ UNCHANGED idx
        ELSE /\ AfterVerify(p)
             /\ UNCHANGED conn
    /\ UNCHANGED <<tables, columns, st, clean, exc, exitcode, banner, active, notSeed>>

\* verify_users, lines 166-195: the SELECT (after DESCRIBE for a tenant), its
\* rows or its database error printed, and the finally that closes the
\* cursor and the connection.
VerifyQuery(p) ==
    /\ pc[p] = "v_query"
    /\ conn' = [conn EXCEPT ![p] = conn[p] \ {CurDb(p)}]
    /\ AfterVerify(p)
    /\ UNCHANGED <<tables, columns, st, clean, exc, exitcode, banner, active, notSeed>>

\* main, lines 231-237: the completion banner and the credentials; main
\* returns and the process ends with status 0.
Banner(p) ==
    /\ pc[p] = "banner"
    /\ banner' = [banner EXCEPT ![p] = TRUE]
    /\ pc' = [pc EXCEPT ![p] = "done"]
    /\ exitcode' = [exitcode EXCEPT ![p] = 0]
    /\ UNCHANGED <<tables, columns, idx, conn, st, clean, exc, active, notSeed>>

\* The e-mail addresses main prints under LOGIN CREDENTIALS.
PrintedEmail(db) ==
    IF db = DemoDb THEN <<"admin@", "demo", ".school">>
                   ELSE <<"admin@", "maroon", ".school">>

\* Ctrl-C, or an exception that is no mysql.connector.Error (bcrypt, print,
\* tabulate), at any point of the run.
Abort(p) ==
    \E e \in {"KeyboardInterrupt", "OtherException"} : MainGuard(p, e)

\* One step of run p that is no abort.
SeedStep(p) ==
    \/ Start(p)
    \/ Connect(p)
    \/ ClearExistingUsers(p)
    \/ SeedAdmin(p)
    \/ CloseConn(p)
    \/ VerifyConnect(p)
    \/ VerifyQuery(p)
    \/ Banner(p)

NextSeed ==
    \/ \E p \in Runs : Start(p)
    \/ \E p \in Runs : Connect(p)
    \/ \E p \in Runs : ClearExistingUsers(p)
    \/ \E p \in Runs : SeedAdmin(p)
    \/ \E p \in Runs : CloseConn(p)
    \/ \E p \in Runs : VerifyConnect(p)
    \/ \E p \in Runs : VerifyQuery(p)
    \/ \E p \in Runs : Banner(p)
    \/ \E p \in Runs : Abort(p)

\* The script is started when every earlier run of it has completed.
StartAlone(p) ==
    /\ \A q \in Runs \ {p} : pc[q] \in {"idle", "done"}
    /\ Start(p)

NextRerun ==
    \/ \E p \in Runs : StartAlone(p)
    \/ \E p \in Runs : Connect(p)
    \/ \E p \in Runs : ClearExistingUsers(p)
    \/ \E p \in Runs : SeedAdmin(p)
    \/ \E p \in Runs : CloseConn(p)
    \/ \E p \in Runs : VerifyConnect(p)
    \/ \E p \in Runs : VerifyQuery(p)
    \/ \E p \in Runs : Banner(p)
    \/ \E p \in Runs : Abort(p)

----------------------------------------------------------------------------
(* check_users.py, show_users.py, explore_db.py: the read helpers           *)

InformationSchema == <<"information", "schema">>

\* Stands for "the database_name parameter" where a database name is expected.
Arg == <<>>

\* The read helpers: the script that defines each, the database it connects
\* to (Arg: its database_name parameter), the table its SHOW TABLES LIKE
\* looks for ("none": no such check) and what it makes of the rows.
Helpers ==
    { [file |-> "check_users", name |-> "get_system_users", db |-> SystemDb,
       check |-> "SystemUsers", kind |-> "rows"],
      [file |-> "check_users", name |-> "get_trust_databases", db |-> InformationSchema,
       check |-> "none", kind |-> "column0"],
      [file |-> "check_users", name |-> "get_trust_users", db |-> Arg,
       check |-> "Users", kind |-> "annotated"],
      [file |-> "check_users", name |-> "get_trust_info", db |-> SystemDb,
       check |-> "Trusts", kind |-> "dict"],
      [file |-> "show_users", name |-> "get_system_users", db |-> SystemDb,
       check |-> "none", kind |-> "rows"],
      [file |-> "show_users", name |-> "get_trust_users", db |-> DemoDb,
       check |-> "none", kind |-> "rows"],
      [file |-> "show_users", name |-> "get_trust_info", db |-> SystemDb,
       check |-> "none", kind |-> "rows"],
      [file |-> "explore_db", name |-> "show_tables", db |-> Arg,
       check |-> "none", kind |-> "column0"],
      [file |-> "explore_db", name |-> "describe_table", db |-> Arg,
       check |-> "none", kind |-> "rows"],
      [file |-> "explore_db", name |-> "get_table_data", db |-> Arg,
       check |-> "none", kind |-> "rows"] }

ReadScripts == {h.file : h \in Helpers}

\* The databases a helper is called for.
HelperDbs(h) == IF h.db = Arg THEN {SystemDb, DemoDb, MaroonDb} ELSE {h.db}

\* Largest number of rows the server returns for one statement.
MaxReadRows == 2

\* The rows the server may return.
ServerRow == {[id |-> 1, name |-> "demo"], [id |-> 2, name |-> "maroon"]}
ServerRows == UNION {[1..n -> ServerRow] : n \in 0..MaxReadRows}

\* database_name.replace('school_erp_trust_', '')
TrustCode(db) ==
    IF Len(db) > 3 /\ SubSeq(db, 1, 3) = <<"school", "erp", "trust">>
    THEN SubSeq(db, 4, Len(db))
    ELSE db

\* {trust['trust_code']: trust for trust in trusts}: a mapping as its items in
\* insertion order; a later row with a key already present replaces the value.
RECURSIVE ToDict(_)
ToDict(rows) ==
    IF rows = <<>> THEN <<>>
    ELSE LET d == ToDict(SubSeq(rows, 1, Len(rows) - 1))
             r == rows[Len(rows)]
         IN  IF \E i \in 1..Len(d) : d[i].key = r.name
             THEN [i \in 1..Len(d) |->
                      IF d[i].key = r.name THEN [key |-> r.name, value |-> r] ELSE d[i]]
             ELSE Append(d, [key |-> r.name, value |-> r])

\* What the helper returns for the rows fetched.
Returned(h, db, rows) ==
    CASE h.kind = "rows" -> rows
      [] h.kind = "column0" -> [i \in 1..Len(rows) |-> rows[i].name]
      [] h.kind = "annotated" ->
            [i \in 1..Len(rows) |->
                [id |-> rows[i].id, name |-> rows[i].name,
                 database |-> db, trust_code |-> TrustCode(db)]]
      [] h.kind = "dict" -> ToDict(rows)

NoHelper == [file |-> "none", name |-> "none", db |-> Arg, check |-> "none",
             kind |-> "rows"]

ReadIdle ==
    /\ r_fn = NoHelper
    /\ r_db = SystemDb
    /\ r_pc = "idle"
    /\ r_conn = 0
    /\ r_fail = "none"
    /\ r_missing = FALSE
    /\ r_result = <<>>

\* connect_to_database, and the `if not conn: return []` (or `return {}`) of
\* the helper; on success the cursor is opened.
ReadCall(h, db) ==
    /\ script = h.file
    /\ r_pc \in {"idle", "returned"}
    /\ r_fn' = h
    /\ r_db' = db
    /\ r_missing' = FALSE
    /\ r_result' = <<>>
    /\ \E ok \in BOOLEAN :
        IF ok
        THEN /\ r_conn' = r_conn + 1
             /\ r_fail' = "none"
             /\ r_pc' = IF h.check = "none" THEN "select" ELSE "check"
        ELSE /\ r_conn' = r_conn
             /\ r_fail' = "connect"
             /\ r_pc' = "returned"
    /\ UNCHANGED notRead

(* A helper without its except clause: the database error goes to the caller. *)
StatementErrorPropagates ==
    /\ r_fail' = "statement"
    /\ r_result' = <<>>
    /\ r_pc' = "unwinding"

\* except mysql.connector.Error: print the error, return [] (or {}).
StatementError ==
    /\ r_fail' = "statement"
    /\ r_result' = <<>>
    /\ r_pc' = "finally"

\* cursor.execute("SHOW TABLES LIKE ..."); if not cursor.fetchone(): return []
ReadCheck ==
    /\ r_pc = "check"
    /\ \E outcome \in {"error", "missing", "found"} :
        CASE outcome = "error" -> StatementError /\ UNCHANGED r_missing
          [] outcome = "missing" ->
                /\ r_missing' = TRUE
                /\ r_result' = <<>>
                /\ r_pc' = "finally"
                /\ UNCHANGED r_fail
          [] outcome = "found" ->
                /\ r_pc' = "select"
                /\ UNCHANGED <<r_missing, r_result, r_fail>>
    /\ UNCHANGED <<r_fn, r_db, r_conn, notRead>>

\* cursor.execute(query); cursor.fetchall(); return what is made of the rows.
ReadSelect ==
    /\ r_pc = "select"
    /\ \/ StatementError
       \/ \E rows \in ServerRows :
            /\ r_result' = Returned(r_fn, r_db, rows)
            /\ r_pc' = "finally"
            /\ UNCHANGED r_fail
    /\ UNCHANGED <<r_fn, r_db, r_conn, r_missing, notRead>>

(* A finally that closes the cursor only. *)
ReadFinallyLeaks ==
    /\ r_pc \in {"finally", "unwinding"}
    /\ r_pc' = IF r_pc = "finally" THEN "returned" ELSE "raised"
    /\ UNCHANGED <<r_fn, r_db, r_conn, r_fail, r_missing, r_result, notRead>>

\* finally: cursor.close(); conn.close(); then the return (or the exception
\* on its way out) takes effect.
ReadFinally ==
    /\ r_pc \in {"finally", "unwinding"}
    /\ r_conn' = r_conn - 1
    /\ r_pc' = IF r_pc = "finally" THEN "returned" ELSE "raised"
    /\ UNCHANGED <<r_fn, r_db, r_fail, r_missing, r_result, notRead>>

InitRead ==
    /\ script \in ReadScripts
    /\ ReadIdle

NextRead ==
    \/ \E h \in Helpers : \E db \in HelperDbs(h) : ReadCall(h, db)
    \/ ReadCheck
    \/ ReadSelect
    \/ ReadFinally

----------------------------------------------------------------------------
(* check_users.py: main                                                     *)

\* main is not run: nothing fetched, nothing printed.
ReportIdle ==
    /\ c_pc = "idle"
    /\ c_system = <<>>
    /\ c_dbs = <<>>
    /\ c_counts = <<>>
    /\ c_all = [bound |-> FALSE, rows |-> <<>>]
    /\ c_summary = [system |-> 0, databases |-> 0, trust |-> 0, grand |-> 0]

\* main is started: its first call is get_system_users().
InitReport ==
    /\ script = "check_users"
    /\ ReadIdle
    /\ c_pc = "get_system_users"
    /\ c_system = <<>>
    /\ c_dbs = <<>>
    /\ c_counts = <<>>
    /\ c_all = [bound |-> FALSE, rows |-> <<>>]
    /\ c_summary = [system |-> 0, databases |-> 0, trust |-> 0, grand |-> 0]

\* The database a schema name returned by get_trust_databases stands for.
SchemaDb(name) == <<"school", "erp", "trust", name>>

\* The helper main calls at its position, and the database it passes.
DueHelper == CHOOSE h \in Helpers : h.file = "check_users" /\ h.name = c_pc

DueDb ==
    IF c_pc = "get_trust_users" THEN SchemaDb(c_dbs[Len(c_counts) + 1])
    ELSE DueHelper.db

\* main calls the helper that is due.
ReportCall ==
    /\ c_pc \in {"get_system_users", "get_trust_info", "get_trust_databases",
                 "get_trust_users"}
    /\ r_pc = "idle"
    /\ ReadCall(DueHelper, DueDb)

\* The helper's return value has been bound in main.
ReportReturn ==
    /\ r_pc = "returned"
    /\ r_pc' = "idle"
    /\ r_fn' = NoHelper
    /\ r_db' = SystemDb
    /\ r_fail' = "none"
    /\ r_missing' = FALSE
    /\ r_result' = <<>>
    /\ UNCHANGED <<r_conn, notReport>>

\* system_users = get_system_users(), and its table or 'No system users'.
TakeSystemUsers ==
    /\ c_pc = "get_system_users"
    /\ ReportReturn
    /\ c_system' = r_result
    /\ c_pc' = "get_trust_info"
    /\ UNCHANGED <<c_dbs, c_counts, c_all, c_summary>>

\* trust_info = get_trust_info(): used for the names that are printed only.
TakeTrustInfo ==
    /\ c_pc = "get_trust_info"
    /\ ReportReturn
    /\ c_pc' = "get_trust_databases"
    /\ UNCHANGED <<c_system, c_dbs, c_counts, c_all, c_summary>>

\* trust_databases = get_trust_databases(); `if trust_databases:` binds
\* all_trust_users = [] and enters the loop.
TakeTrustDatabases ==
    /\ c_pc = "get_trust_databases"
    /\ ReportReturn
    /\ c_dbs' = r_result
    /\ IF r_result # <<>>
       THEN /\ c_all' = [bound |-> TRUE, rows |-> <<>>]
            /\ c_pc' = "get_trust_users"
       ELSE /\ UNCHANGED c_all
            /\ c_pc' = "summary"
    /\ UNCHANGED <<c_system, c_counts, c_summary>>

(* all_trust_users = trust_users *)
ExtendReplaces(all, users) == [all EXCEPT !.rows = users]

\* all_trust_users.extend(trust_users)
Extend(all, users) == [all EXCEPT !.rows = @ \o users]

\* One round of the loop: trust_users = get_trust_users(db_name), its table
\* and the extend, or 'No users found in this trust database.'
TakeTrustUsers ==
    /\ c_pc = "get_trust_users"
    /\ ReportReturn
    /\ c_counts' = Append(c_counts, Len(r_result))
    /\ c_all' = IF r_result # <<>> THEN Extend(c_all, r_result) ELSE c_all
    /\ c_pc' = IF Len(c_counts) + 1 < Len(c_dbs) THEN "get_trust_users" ELSE "summary"
    /\ UNCHANGED <<c_system, c_dbs, c_summary>>

\* len(system_users) if system_users else 0
SystemCount == IF c_system # <<>> THEN Len(c_system) ELSE 0

\* len(all_trust_users) if 'all_trust_users' in locals() else 0
TrustCount == IF c_all.bound THEN Len(c_all.rows) ELSE 0

\* main, lines 272-279: the summary.
ReportSummary ==
    /\ c_pc = "summary"
    /\ c_summary' = [system |-> SystemCount, databases |-> Len(c_dbs),
                     trust |-> TrustCount, grand |-> SystemCount + TrustCount]
    /\ c_pc' = "done"
    /\ UNCHANGED <<c_system, c_dbs, c_counts, c_all, readVars, notReport>>

NextReport ==
    \/ ReportCall
    \/ ReadCheck
    \/ ReadSelect
    \/ ReadFinally
    \/ TakeSystemUsers
    \/ TakeTrustInfo
    \/ TakeTrustDatabases
    \/ TakeTrustUsers
    \/ ReportSummary

----------------------------------------------------------------------------
(* test_auth.py, test_simple_auth.py: the login probes                      *)

\* HTTP statuses the login service may answer with.
Statuses == {200, 400, 401, 403, 500}

\* What requests.post may raise: no connection, or the socket timeout.
RequestErrors == {"ConnectionError", "Timeout"}

\* The probes of each script, in the order of the source.
Probes(sc) ==
    IF sc = "test_auth"
    THEN << [user |-> "admin@system.local", host |-> "localhost:3000"],
            [user |-> "admin@trustdemo.edu", host |-> "demo.localhost:3000"],
            [user |-> "admin@system.local", host |-> "demo.localhost:3000"],
            [user |-> "admin@trustdemo.edu", host |-> "localhost:3000"] >>
    ELSE << [user |-> "admin@system.local", host |-> "localhost:3000"],
            [user |-> "admin@trustdemo.edu", host |-> "localhost:3000"] >>

ProbeScripts == {"test_auth", "test_simple_auth"}

\* No probe attempted yet.
ProbeIdle ==
    /\ t_pc = 1
    /\ t_out = <<>>
    /\ t_complete = FALSE

InitProbe ==
    /\ script \in ProbeScripts
    /\ ProbeIdle

(* A probe without its try/except: the exception ends the script. *)
ProbeRaisedEscapes(e) ==
    /\ t_out' = Append(t_out, [probe |-> Probes(script)[t_pc], outcome |-> e])
    /\ t_pc' = 0

\* except Exception as e: print(f"Error: {e}"), and on to the next probe.
ProbeRaised(e) ==
    /\ t_out' = Append(t_out, [probe |-> Probes(script)[t_pc], outcome |-> e])
    /\ t_pc' = t_pc + 1

\* requests.post answered: the status and the body are printed.
ProbeAnswered(status) ==
    /\ t_out' = Append(t_out, [probe |-> Probes(script)[t_pc],
                               outcome |-> <<"Status", status>>])
    /\ t_pc' = t_pc + 1

\* One try block: requests.post(...) and its prints, or the except.
Probe ==
    /\ script \in ProbeScripts
    /\ t_pc \in 1..Len(Probes(script))
    /\ \/ \E status \in Statuses : ProbeAnswered(status)
       \/ \E e \in RequestErrors : ProbeRaised(<<"Error", e>>)
    /\ UNCHANGED <<t_complete, notProbe>>

\* print("\n=== Test Complete ===")
ProbeComplete ==
    /\ script \in ProbeScripts
    /\ t_pc = Len(Probes(script)) + 1
    /\ ~t_complete
    /\ t_complete' = TRUE
    /\ UNCHANGED <<t_pc, t_out, notProbe>>

NextProbe ==
    \/ Probe
    \/ ProbeComplete

----------------------------------------------------------------------------
(* test_security.py                                                         *)

\* What a response body may be: no JSON, a JSON number, a JSON object without
\* 'success', a JSON object whose 'success' is true, false or a non-empty
\* string.
Bodies == {"not_json", "json_number", "no_success", "success_true", "success_false",
           "success_text"}

\* What requests.post returns or raises.
Replies ==
    [error : {"none"}, status : Statuses, body : Bodies] \cup
    [error : RequestErrors, status : {0}, body : {"not_json"}]

\* main's seven test_request calls, in the order of the source.
Tests ==
    << [id |-> "1.1", name |-> "System Admin Main Domain",
        host |-> "localhost:3000", expected |-> "SUCCESS"],
       [id |-> "1.2", name |-> "System Admin from Tenant Domain",
        host |-> "demo.localhost:3000", expected |-> "BLOCKED"],
       [id |-> "2.1", name |-> "Trust User from Tenant Domain",
        host |-> "demo.localhost:3000", expected |-> "DEPENDS"],
       [id |-> "2.2", name |-> "Trust User from Main Domain",
        host |-> "localhost:3000", expected |-> "BLOCKED"],
       [id |-> "3.1", name |-> "System Creds on Tenant Domain",
        host |-> "demo.localhost:3000", expected |-> "BLOCKED"],
       [id |-> "3.2", name |-> "Fake Trust Admin",
        host |-> "demo.localhost:3000", expected |-> "BLOCKED"],
       [id |-> "4.1", name |-> "Invalid Subdomain",
        host |-> "invalid.localhost:3000", expected |-> "DEPENDS"] >>

\* response.json() raises on a body that is not JSON; test_request's except
\* clauses turn any exception into `return False`.
JsonRaises(r) == r.body = "not_json"

\* `'success' in response.json()` raises TypeError when the JSON value is a
\* number.
InRaises(r) == r.body = "json_number"

\* 'success' in response.json()
HasSuccess(r) == r.body \in {"success_true", "success_false", "success_text"}

\* response.json()['success'], as `and` / `not` / `if` take it: its truth value.
SuccessValue(r) == r.body \in {"success_true", "success_text"}

\* type(response.json()['success'])
SuccessType(r) == IF r.body = "success_text" THEN "str" ELSE "bool"

(* A BLOCKED check that also takes any 200 without a true 'success' as blocked. *)
TestRequestLenient(expected, r) ==
    IF r.error # "none" THEN FALSE
    ELSE CASE expected = "BLOCKED" ->
                \/ r.status \in {401, 403, 400}
                \/ r.status = 200 /\ ~SuccessValue(r)
           [] expected = "SUCCESS" ->
                r.status = 200 /\ ~JsonRaises(r) /\ HasSuccess(r) /\ SuccessValue(r)
           [] OTHER -> TRUE

(* A SUCCESS check that looks at the body only, whatever the status. *)
TestRequestBodyOnly(expected, r) ==
    IF r.error # "none" THEN FALSE
    ELSE CASE expected = "BLOCKED" ->
                IF r.status \in {401, 403, 400} THEN TRUE
                ELSE IF r.status # 200 THEN FALSE
                ELSE IF JsonRaises(r) \/ InRaises(r) THEN FALSE
                ELSE HasSuccess(r) /\ ~SuccessValue(r)
           [] expected = "SUCCESS" ->
                IF JsonRaises(r) \/ InRaises(r) THEN FALSE
                ELSE HasSuccess(r) /\ SuccessValue(r)
           [] OTHER -> TRUE

\* test_request, lines 24-72: the truth value of what it returns, which is
\* all that its callers use.  `or` and `and` evaluate left to right:
\* response.json() is reached only with status 200 (BLOCKED, after the status
\* list) or status 200 (SUCCESS).
TestRequest(expected, r) ==
    IF r.error # "none" THEN FALSE
    ELSE CASE expected = "BLOCKED" ->
                IF r.status \in {401, 403, 400} THEN TRUE
                ELSE IF r.status # 200 THEN FALSE
                ELSE IF JsonRaises(r) \/ InRaises(r) THEN FALSE
                ELSE HasSuccess(r) /\ ~SuccessValue(r)
           [] expected = "SUCCESS" ->
                IF r.status # 200 THEN FALSE
                ELSE IF JsonRaises(r) \/ InRaises(r) THEN FALSE
                ELSE HasSuccess(r) /\ SuccessValue(r)
           [] OTHER -> TRUE

\* The exception test_request's try block ends with, "none" when it runs to
\* its end.  requests.post raises a RequestException; response.json() raises
\* a ValueError where the verdict evaluates it (the one in the printing block
\* is under a bare except of its own).
TryRaises(expected, r) ==
    IF r.error # "none" THEN r.error
    ELSE IF expected \in {"BLOCKED", "SUCCESS"} /\ r.status = 200 /\ JsonRaises(r)
         THEN "ValueError"
    ELSE IF expected \in {"BLOCKED", "SUCCESS"} /\ r.status = 200 /\ InRaises(r)
         THEN "TypeError"
         ELSE "none"

\* The exceptions the try block can end with; all derive from Exception.
Exceptions == RequestErrors \cup {"ValueError", "TypeError"}

(* A test_request without its `except Exception` clause. *)
CaughtRequestOnly(e) == e \in RequestErrors

\* test_request's handlers: `except requests.exceptions.RequestException`,
\* then `except Exception`.
Caught(e) == e \in RequestErrors \/ e \in Exceptions

\* The Python type of what test_request returns.  A comparison, `in` and `not`
\* give a bool; `a and b and c` gives c itself when a and b are true, so under
\* SUCCESS the 'success' field of the body is returned as it is.
TestRequestType(expected, r) ==
    IF TryRaises(expected, r) # "none" THEN "bool"
    ELSE IF expected = "SUCCESS" /\ r.status = 200 /\ HasSuccess(r)
         THEN SuccessType(r)
         ELSE "bool"

\* Whether test_request lets an exception out.
TestRequestRaises(expected, r) ==
    TryRaises(expected, r) # "none" /\ ~Caught(TryRaises(expected, r))

\* main before its first test: results = [].
SuiteIdle ==
    /\ s_pc = 1
    /\ s_last = [expected |-> "none", reply |-> [error |-> "none", status |-> 0,
                                                 body |-> "not_json"],
                 verdict |-> FALSE, type |-> "bool", raised |-> FALSE]
    /\ s_results = <<>>
    /\ s_status = "none"

InitSuite ==
    /\ script = "test_security"
    /\ SuiteIdle

(* A main whose test 4.1 records nothing when the request fails. *)
SuiteTestDropsUnreachable ==
    /\ script = "test_security"
    /\ s_pc \in 1..Len(Tests)
    /\ \E r \in Replies :
        LET t == Tests[s_pc]
            success == TestRequest(t.expected, r)
        IN  /\ s_last' = [expected |-> t.expected, reply |-> r, verdict |-> success,
                          type |-> TestRequestType(t.expected, r), raised |-> FALSE]
            /\ s_results' = IF t.id = "4.1" /\ r.error # "none"
                            THEN s_results
                            ELSE Append(s_results, <<t.name, success>>)
    /\ s_pc' = s_pc + 1
    /\ UNCHANGED <<s_status, notSuite>>

\* One test of main: print_test, test_request, results.append.  Test 4.1
\* wraps the call in try/except and records True when the call raises; an
\* exception out of any other call ends main with a traceback (s_pc = 0).
SuiteTest ==
    /\ script = "test_security"
    /\ s_pc \in 1..Len(Tests)
    /\ \E r \in Replies :
        LET t == Tests[s_pc]
            raised == TestRequestRaises(t.expected, r)
            success == IF raised THEN TRUE ELSE TestRequest(t.expected, r)
        IN  /\ s_last' = [expected |-> t.expected, reply |-> r, verdict |-> success,
                          type |-> IF raised THEN "bool"
                                   ELSE TestRequestType(t.expected, r),
                          raised |-> raised]
            /\ IF raised /\ t.id # "4.1"
               THEN s_pc' = 0 /\ UNCHANGED s_results
               ELSE /\ s_pc' = s_pc + 1
                    /\ s_results' = Append(s_results, <<t.name, success>>)
    /\ UNCHANGED <<s_status, notSuite>>

\* sum(1 for _, result in results if result)
RECURSIVE Passed(_)
Passed(results) ==
    IF results = <<>> THEN 0
    ELSE Passed(Tail(results)) + (IF Head(results)[2] THEN 1 ELSE 0)

(* A threshold computed in integers: total * 8 // 10. *)
PassRateOkTruncated(passed, total) == passed >= (total * 8) \div 10

\* passed >= total * 0.8, in tenths.
PassRateOk(passed, total) == passed * 10 >= total * 8

\* main, lines 183-203: the summary and the SECURITY STATUS line.
SuiteSummary ==
    /\ script = "test_security"
    /\ s_pc = Len(Tests) + 1
    /\ s_status' = IF PassRateOk(Passed(s_results), Len(s_results))
                   THEN "GOOD" ELSE "NEEDS ATTENTION"
    /\ s_pc' = s_pc + 1
    /\ UNCHANGED <<s_last, s_results, notSuite>>

NextSuite ==
    \/ SuiteTest
    \/ SuiteSummary

----------------------------------------------------------------------------

Next ==
    \/ NextSeed
    \/ NextRead

\* The database scripts: one run of the seed script, or one of the reporting
\* scripts calling its read helpers.
Init ==
    \/ InitSeed /\ ReadIdle /\ ReportIdle /\ ProbeIdle /\ SuiteIdle
    \/ InitRead /\ SeedIdle /\ ReportIdle /\ ProbeIdle /\ SuiteIdle

Spec == Init /\ [][Next]_vars

\* The probe scripts alone.
ProbeInit == InitProbe /\ SeedIdle /\ ReadIdle /\ ReportIdle /\ SuiteIdle

\* The probes run synchronously and every request has a socket timeout:
\* a script that can take a step takes it.
SpecProbe == ProbeInit /\ [][NextProbe]_vars /\ WF_vars(NextProbe)

\* The security suite alone.
SuiteInit == InitSuite /\ SeedIdle /\ ReadIdle /\ ReportIdle /\ ProbeIdle

SpecSuite == SuiteInit /\ [][NextSuite]_vars

\* Two concurrent runs of the seed script.
RaceInit == InitRace /\ ReadIdle /\ ReportIdle /\ ProbeIdle /\ SuiteIdle

SpecRace == RaceInit /\ [][NextSeed]_vars

\* Runs of the seed script that do not overlap.
RerunInit == InitRerun /\ ReadIdle /\ ReportIdle /\ ProbeIdle /\ SuiteIdle

SpecRerun == RerunInit /\ [][NextRerun]_vars

\* main of check_users.py, with the calls of the read helpers it makes.
ReportInit == InitReport /\ SeedIdle /\ ProbeIdle /\ SuiteIdle

SpecReport == ReportInit /\ [][NextReport]_vars

----------------------------------------------------------------------------
(* Properties                                                               *)

\* C1: a read helper that met a failed connection or a database error of a
\* statement returns an empty result, and no error reaches its caller.
C1_EmptyOnFailure ==
    /\ r_pc \notin {"unwinding", "raised"}
    /\ (r_pc \in {"finally", "returned"} /\ r_fail # "none") => r_result = <<>>

C1_Witness ==
    /\ r_pc = "returned"
    /\ r_fail = "statement"
    /\ r_fn.check # "none"

\* C2: a connection that was opened is closed when the function that used it
\* returns: a read helper (normal return, table missing, database error),
\* each database block of the seed script's main, verify_users and main.
C2_ConnectionsClosed ==
    /\ r_pc \in {"idle", "returned", "raised"} => r_conn = 0
    /\ \A p \in Runs :
          pc[p] \in {"connect", "v_connect", "banner", "done"} => conn[p] = {}

C2_Witness ==
    /\ r_pc = "returned"
    /\ r_missing
    /\ r_conn = 0

\* C3: in the seed script a database failure never ends the process: a run
\* that is not aborted can always take its next step, ends with the banner
\* printed and status 0, and status 1 comes only from KeyboardInterrupt or
\* from an exception that is no database error.
C3_ExitStatus ==
    \A p \in Runs :
        /\ exitcode[p] = 1 <=> pc[p] = "exit"
        /\ exitcode[p] = 1 => exc[p] \in {"KeyboardInterrupt", "OtherException"}
        /\ Running(p) => exitcode[p] = -1 /\ ENABLED SeedStep(p)
        /\ pc[p] = "done" => banner[p] /\ exitcode[p] = 0 /\ exc[p] = "none"
        /\ banner[p] => pc[p] = "done"

C3_Witness ==
    \E p \in Runs : pc[p] = "done" /\ ~clean[p] /\ exitcode[p] = 0 /\ banner[p]

\* Both runs have issued their DELETE on the same database and neither has
\* issued its INSERT there.
BothDeleted(p, q) ==
    /\ p # q
    /\ pc[p] = "seed" /\ pc[q] = "seed"
    /\ idx[p] = idx[q]
    /\ st[p].del = "ok" /\ st[q].del = "ok"

\* C4: with two concurrent runs, once both DELETEs are done the table is
\* empty, and every INSERT that succeeds adds the admin row to whatever the
\* table holds (no uniqueness check): both INSERTs leave two admin rows.
C4_Race ==
    /\ [](\A p, q \in Runs : BothDeleted(p, q) => tables[CurDb(p)] = <<>>)
    /\ [][\A p \in Runs :
            (pc[p] = "seed" /\ pc'[p] = "close" /\ st'[p].ins = "ok") =>
                tables'[CurDb(p)] =
                    Append(tables[CurDb(p)], AdminRow(CurDb(p), columns, Salt(p)))]_vars

C4_Witness ==
    /\ \A p \in Runs : pc[p] = "done" /\ clean[p]
    /\ \E d \in DBs : \E p, q \in Runs :
          tables[d] = <<AdminRow(d, columns, Salt(p)), AdminRow(d, columns, Salt(q))>>

\* The DELETE of run p succeeded and its INSERT failed with a database error.
InsertFailedAfterDelete(p) ==
    /\ pc[p] = "close"
    /\ st[p].del = "ok"
    /\ st[p].ins = "fail"

\* C5: no rollback: after a DELETE that succeeded and an INSERT that failed
\* the table is empty, the run has not ended, its next step takes it to the
\* next database (to verify_users after the third), and nothing later in
\* the run writes to that table.
C5_NoRollback ==
    /\ [](\A p \in Runs : InsertFailedAfterDelete(p) =>
            /\ tables[CurDb(p)] = <<>>
            /\ exc[p] = "none" /\ exitcode[p] = -1
            /\ ENABLED CloseConn(p))
    /\ [][\A p \in Runs :
            (InsertFailedAfterDelete(p) /\ pc'[p] \notin {"close", "exit"}) =>
                /\ tables' = tables
                /\ IF idx[p] < Len(Databases)
                   THEN pc'[p] = "connect" /\ idx'[p] = idx[p] + 1
                   ELSE pc'[p] = "v_connect"]_vars
    /\ [][\A d \in DBs : tables'[d] # tables[d] =>
            \E p \in Runs : CurDb(p) = d /\ pc[p] \in {"clear", "seed"}]_vars

C5_Witness ==
    \E p \in Runs :
        /\ InsertFailedAfterDelete(p)
        /\ CurDb(p) = MaroonDb
        /\ tables[MaroonDb] = <<>>

\* C6: after one run in which every connection, DELETE and INSERT of main
\* succeeded, each of the three user tables holds exactly the new admin row.
C6_OneAdminEach ==
    \A p \in Runs :
        (active = {p} /\ pc[p] = "done" /\ clean[p]) =>
            \A d \in DBs : tables[d] = <<AdminRow(d, columns, Salt(p))>>

C6_Witness ==
    \E p \in Runs : active = {p} /\ pc[p] = "done" /\ clean[p]

\* C7: the probe scripts attempt their probes in the fixed order of the
\* source whatever each probe's outcome, and always reach 'Test Complete'.
C7_ProbesComplete ==
    /\ [](/\ t_pc = Len(t_out) + 1
          /\ Len(t_out) <= Len(Probes(script))
          /\ \A i \in 1..Len(t_out) : t_out[i].probe = Probes(script)[i]
          /\ t_complete => Len(t_out) = Len(Probes(script)))
    /\ <>t_complete

C7_Witness ==
    /\ script = "test_auth"
    /\ t_complete
    /\ Len(t_out) = 4
    /\ t_out[1].outcome = <<"Error", "Timeout">>
    /\ t_out[2].outcome = <<"Error", "ConnectionError">>
    /\ t_out[4].outcome = <<"Status", 500>>

\* The last call of test_request returned the value True.
ReturnedTrue == s_last.verdict /\ s_last.type = "bool"

C9_Status ==
    s_status # "none" =>
        /\ s_status \in {"GOOD", "NEEDS ATTENTION"}
        /\ s_status = "GOOD" <=> 100 * Passed(s_results) >= 80 * Len(s_results)
        /\ Len(s_results) = 7
        /\ s_status = "GOOD" <=> Passed(s_results) >= 6

C9_Witness ==
    /\ s_status = "NEEDS ATTENTION"
    /\ Passed(s_results) = 5

\* C10: when GOOD is reported, tests 1.2 and 2.2 (the cross-domain
\* restrictions) both passed.
C10_GoodMeansRestricted ==
    s_status = "GOOD" => s_results[2][2] /\ s_results[4][2]

\* C11: in test 4.1, a request to invalid.localhost that fails (the host is
\* not resolved or not reached) is recorded as a passed 'Invalid Subdomain'.
C11_UnreachableRecordedPassed ==
    (Len(s_results) = Len(Tests) /\ s_last.reply.error # "none") =>
        s_results[Len(Tests)] = <<"Invalid Subdomain", TRUE>>

\* A response of the shape the login endpoint is stated to have.
StatedShape(r) ==
    /\ r.error = "none"
    /\ r.status \in {200, 400, 401, 403}
    /\ r.body \in {"success_true", "success_false"}

\* C12: for a response of the stated shape, exactly one of the BLOCKED
\* verdict and the SUCCESS verdict of test_request is True.
C12_Complementary ==
    StatedShape(s_last.reply) =>
        /\ TestRequest("BLOCKED", s_last.reply) # TestRequest("SUCCESS", s_last.reply)
        /\ TestRequestType("BLOCKED", s_last.reply) = "bool"
        /\ TestRequestType("SUCCESS", s_last.reply) = "bool"
        /\ s_last.expected \in {"BLOCKED", "SUCCESS"} =>
              s_last.verdict = TestRequest(s_last.expected, s_last.reply)

C12_Witness ==
    /\ s_last.expected = "BLOCKED"
    /\ StatedShape(s_last.reply)
    /\ s_last.reply.status = 401
    /\ s_last.reply.body = "success_true"
    /\ s_last.verdict
    /\ ~TestRequest("SUCCESS", s_last.reply)

\* The last call of test_request did not raise, and its error cases came out
\* as stated: a connection error, a timeout and a status-200 body that is not
\* JSON (under BLOCKED or SUCCESS) give a false value; a body that is not
\* JSON under DEPENDS, or with status 400, 401 or 403 under BLOCKED, does not
\* make the result false.
ErrorsGiveFalse ==
    /\ ~s_last.raised
    /\ s_last.reply.error # "none" => ~s_last.verdict /\ s_last.type = "bool"
    /\ ( /\ s_last.reply.error = "none"
         /\ s_last.reply.status = 200
         /\ s_last.reply.body = "not_json"
         /\ s_last.expected \in {"BLOCKED", "SUCCESS"} )
            => ~s_last.verdict /\ s_last.type = "bool"
    /\ ( /\ s_last.reply.error = "none"
         /\ s_last.reply.body = "not_json"
         /\ \/ s_last.expected = "DEPENDS"
            \/ s_last.expected = "BLOCKED" /\ s_last.reply.status \in {400, 401, 403} )
            => s_last.verdict

\* C13: test_request never raises and always returns a boolean, with the
\* error cases as in ErrorsGiveFalse.
C13_AlwaysBoolean ==
    s_last.expected # "none" => ErrorsGiveFalse /\ s_last.type = "bool"

\* C13, amended: test_request never raises, with the error cases as in
\* ErrorsGiveFalse, and returns a boolean except under SUCCESS with status
\* 200 and a JSON body whose 'success' is not a boolean: then it returns
\* that value itself.
C13_NeverRaises ==
    s_last.expected # "none" =>
        /\ ErrorsGiveFalse
        /\ s_last.type # "bool" <=>
              /\ s_last.expected = "SUCCESS"
              /\ s_last.reply.error = "none"
              /\ s_last.reply.status = 200
              /\ s_last.reply.body = "success_text"

C13_Witness ==
    /\ s_last.expected = "BLOCKED"
    /\ s_last.reply.error = "none"
    /\ s_last.reply.status = 200
    /\ s_last.reply.body = "not_json"
    /\ ~s_last.raised
    /\ ~s_last.verdict
    /\ s_pc = 3

\* C14: whatever the requests' outcomes, main records the seven results in
\* the order 1.1, 1.2, 2.1, 2.2, 3.1, 3.2, 4.1 before the summary: there the
\* total is seven, never zero, and the passed count is between 0 and 7.
C14_SevenResults ==
    /\ Len(Tests) = 7
    /\ [i \in 1..Len(Tests) |-> Tests[i].id] =
          <<"1.1", "1.2", "2.1", "2.2", "3.1", "3.2", "4.1">>
    /\ s_pc \in 1..(Len(Tests) + 2)
    /\ Len(s_results) = IF s_pc <= Len(Tests) THEN s_pc - 1 ELSE Len(Tests)
    /\ \A i \in 1..Len(s_results) : s_results[i][1] = Tests[i].name
    /\ s_pc <= Len(Tests) => ENABLED SuiteTest
    /\ s_pc = Len(Tests) + 1 =>
          /\ ENABLED SuiteSummary
          /\ Len(s_results) = 7
          /\ Passed(s_results) \in 0..7
    /\ s_status # "none" => s_pc = Len(Tests) + 2 /\ Len(s_results) = 7

C14_Witness ==
    /\ s_status # "none"
    /\ Len(s_results) = 7
    /\ Passed(s_results) = 0

\* The positions of a run inside verify_users.
InVerify(p) == pc[p] \in {"v_connect", "v_query"}

\* C15: per database the DELETE comes before the INSERT; the databases are
\* processed in the order system, demo, maroon; verify_users starts only
\* after the third; no statement goes to a database while the connection to
\* an earlier one is open.
C15_Order ==
    /\ [](\A p \in Runs :
            /\ pc[p] = "clear" => st[p] = NoStatus
            /\ pc[p] = "seed" => st[p].del # "none" /\ st[p].ins = "none"
            /\ pc[p] \in {"clear", "seed", "close"} => conn[p] = {CurDb(p)}
            /\ pc[p] = "connect" => conn[p] = {})
    /\ Databases = <<SystemDb, DemoDb, MaroonDb>>
    /\ [][\A p \in Runs :
            /\ (pc[p] = "idle" /\ pc'[p] # "idle") =>
                    pc'[p] = "connect" /\ idx'[p] = 1
            /\ (~InVerify(p) /\ idx'[p] # idx[p]) =>
                    /\ pc[p] \in {"connect", "close"}
                    /\ IF idx[p] < 3
                       THEN idx'[p] = idx[p] + 1 /\ pc'[p] = "connect"
                       ELSE idx'[p] = 1 /\ pc'[p] = "v_connect"
            /\ (~InVerify(p) /\ pc'[p] \in {"v_connect", "v_query"}) =>
                    idx[p] = 3 /\ pc[p] \in {"connect", "close"}
            /\ (pc[p] \in {"clear", "seed"} /\ pc'[p] # pc[p]) =>
                    \A d \in DBs \ {CurDb(p)} : tables'[d] = tables[d]]_vars

C15_Witness ==
    \E p \in Runs :
        /\ pc[p] = "v_connect" /\ idx[p] = 1
        /\ clean[p]
        /\ conn[p] = {}
        /\ \A d \in DBs : tables[d] = <<AdminRow(d, columns, Salt(p))>>

\* C17: a call of seed_tenant_admin adds at most one row, at the end of the
\* table; the row is username-style (username 'admin', user_type 'ADMIN',
\* is_active 1) when the table has a 'username' column and email-style (role
\* 'TRUST_ADMIN', status 'ACTIVE') otherwise; its email is 'admin@', the last
\* segment of the database name and '.school': the address main prints.
C17_TenantRow ==
    [][\A p \in Runs :
        (pc[p] = "seed" /\ pc'[p] = "close" /\ CurDb(p) \in TenantDBs) =>
            LET d == CurDb(p)
                row == tables'[d][Len(tables'[d])]
            IN  \/ tables'[d] = tables[d]
                \/ /\ Len(tables'[d]) = Len(tables[d]) + 1
                   /\ SubSeq(tables'[d], 1, Len(tables[d])) = tables[d]
                   /\ IF "username" \in columns[d]
                      THEN /\ row.username = "admin"
                           /\ row.user_type = "ADMIN"
                           /\ row.is_active = 1
                           /\ "role" \notin DOMAIN row
                      ELSE /\ row.role = "TRUST_ADMIN"
                           /\ row.status = "ACTIVE"
                           /\ "username" \notin DOMAIN row
                   /\ row.email = <<"admin@", d[Len(d)], ".school">>
                   /\ row.email = PrintedEmail(d)
                   /\ row.password_hash.of = "admin123"]_vars

C17_Witness ==
    \E p \in Runs :
        /\ pc[p] = "close" /\ st[p].ins = "ok"
        /\ CurDb(p) = DemoDb
        /\ "username" \in columns[DemoDb]
        /\ Len(tables[DemoDb]) = 1
        /\ tables[DemoDb][1].username = "admin"
        /\ tables[DemoDb][1].email = <<"admin@", "demo", ".school">>

\* C18: a database whose connection fails gets no DELETE and no INSERT (its
\* table is as before), and the run goes on to the next database and, after
\* the third, to verify_users, which starts again at the first database.
C18_ConnectFailure ==
    /\ [](\A p \in Runs :
            /\ pc[p] \in {"clear", "seed"} => CurDb(p) \in conn[p]
            /\ pc[p] = "connect" => ENABLED Connect(p)
            /\ pc[p] = "v_connect" => ENABLED VerifyConnect(p))
    /\ [][\A p \in Runs :
            (pc[p] = "connect" /\ st'[p] = Skipped /\ pc'[p] # "exit" /\ idx'[p] # idx[p]) =>
                /\ tables' = tables
                /\ conn'[p] = {}
                /\ exitcode'[p] = -1
                /\ IF idx[p] < Len(Databases)
                   THEN pc'[p] = "connect" /\ idx'[p] = idx[p] + 1
                   ELSE pc'[p] = "v_connect" /\ idx'[p] = 1]_vars

\* The connection to the system database failed, and its table is as before.
C18_Witness ==
    \E p \in Runs :
        /\ pc[p] = "connect" /\ idx[p] = 2
        /\ st[p] = Skipped
        /\ tables[SystemDb] = <<OldUser(SystemDb, columns)>>

\* C20: a DELETE that fails leaves the table as it was and does not stop
\* the run: the INSERT for that database is attempted next, and when it
\* succeeds the table holds its previous rows followed by the new admin.
C20_FailedDeleteStillInserts ==
    /\ [](\A p \in Runs :
            (pc[p] = "seed" /\ st[p].del = "fail") =>
                /\ ENABLED SeedAdmin(p)
                /\ exc[p] = "none" /\ exitcode[p] = -1)
    /\ [][\A p \in Runs :
            (pc[p] = "clear" /\ st'[p].del = "fail") =>
                tables' = tables /\ pc'[p] = "seed"]_vars
    /\ [][\A p \in Runs :
            (pc[p] = "seed" /\ st[p].del = "fail" /\ st'[p].ins = "ok") =>
                /\ Len(tables'[CurDb(p)]) = Len(tables[CurDb(p)]) + 1
                /\ \A i \in 1..Len(tables[CurDb(p)]) :
                      tables'[CurDb(p)][i] = tables[CurDb(p)][i]
                /\ tables'[CurDb(p)][Len(tables'[CurDb(p)])] =
                      AdminRow(CurDb(p), columns, Salt(p))]_vars

\* The system table after a failed DELETE and the INSERT: the old user, the
\* admin of an earlier run and the new admin.
C20_Witness ==
    \E p \in Runs :
        /\ pc[p] = "close" /\ CurDb(p) = SystemDb
        /\ st[p] = [del |-> "fail", ins |-> "ok"]
        /\ tables[SystemDb] = <<OldUser(SystemDb, columns),
                                AdminRow(SystemDb, columns, OldSalt),
                                AdminRow(SystemDb, columns, Salt(p))>>

\* A row without its password hash (timestamps and the generated id are
\* not part of a row here).
Content(row) == [f \in DOMAIN row \ {"password_hash"} |-> row[f]]

\* Every run so far went through with all its statements succeeding, and
\* n of the runs are complete.
CleanRuns(n) ==
    /\ \A p \in Runs : pc[p] \in {"idle", "done"} /\ clean[p]
    /\ Cardinality({p \in Runs : pc[p] = "done"}) = n

\* C19: after one, two or more complete runs that do not overlap and in
\* which every statement succeeded, each table holds exactly one row, the
\* admin, with the same content apart from the password hash.
C19_Idempotent ==
    \A n \in 1..Cardinality(Runs) :
        CleanRuns(n) =>
            \A d \in DBs :
                /\ Len(tables[d]) = 1
                /\ Content(tables[d][1]) = Content(AdminRow(d, columns, OldSalt))
                /\ tables[d][1].password_hash.of = "admin123"

\* Two complete runs: the row is that of the second run, with its own hash.
C19_Witness ==
    /\ CleanRuns(2)
    /\ \A d \in DBs : tables[d] = <<AdminRow(d, columns, Salt(2))>>
    /\ \A d \in DBs : tables[d] # <<AdminRow(d, columns, Salt(1))>>

RECURSIVE Sum(_)
Sum(counts) == IF counts = <<>> THEN 0 ELSE Head(counts) + Sum(Tail(counts))

\* C16: the summary of check_users.py: 'Total Trust Users' is the sum of the
\* counts returned for the trust databases, 'Grand Total Users' is the
\* system count plus that sum; with no trust database all_trust_users is
\* never bound, 0 trust users are printed, and main always reaches the end.
C16_Summary ==
    /\ c_pc # "done" => ENABLED NextReport
    /\ c_pc = "done" =>
          /\ Len(c_counts) = Len(c_dbs)
          /\ c_summary.system = Len(c_system)
          /\ c_summary.databases = Len(c_dbs)
          /\ c_summary.trust = Sum(c_counts)
          /\ c_summary.grand = Len(c_system) + Sum(c_counts)
          /\ c_dbs = <<>> => ~c_all.bound /\ c_summary.trust = 0

\* Two trust databases with users in both.
C16_Witness ==
    /\ c_pc = "done"
    /\ c_counts = <<1, 2>>
    /\ c_summary.trust = 3
    /\ c_summary.grand = 4

====
